---- MODULE Spec2Model ----
(***************************************************************************)
(* Chrome Launcher front end (src/src/routes/+page.svelte): the search /   *)
(* tag filter, the keyboard selection, the add-tag and remove-tag modals   *)
(* and the calls across the Tauri bridge (get_profiles, get_tags,          *)
(* save_tags, launch_profile).                                             *)
(*                                                                         *)
(* Strings are sequences of one-character strings, so that toLowerCase,    *)
(* trim and includes are computed and not assumed.  The theme flag isDark  *)
(* and the visibility flag tagDropdownOpen of the filter dropdown decide   *)
(* only what is painted: no handler reads them to change the data, so they *)
(* are left out and a filter checkbox can be clicked in any state.         *)
(***************************************************************************)
EXTENDS Integers, Sequences, FiniteSets, Bags, TLC

\* ------------------------------------------------------------------ bounds
\* save_tags calls that may be in flight at once
MaxInFlight == 1
\* launch_profile calls that may be in flight at once
MaxLaunches == 1
\* 50 ms focus timers of openAddTagModal that may be pending at once
MaxTimers == 1

\* ----------------------------------------------------------------- strings
\* String.prototype.toLowerCase on one character
Lower(c) ==
  CASE c = "A" -> "a"
    [] c = "B" -> "b"
    [] c = "W" -> "w"
    [] OTHER -> c

\* String.prototype.toLowerCase
ToLowerCase(s) == [i \in 1..Len(s) |-> Lower(s[i])]

\* String.prototype.includes: q occurs in s as a contiguous substring
Includes(s, q) ==
  \E i \in 0..(Len(s) - Len(q)) : SubSeq(s, i + 1, i + Len(q)) = q

RECURSIVE TrimStart(_)
TrimStart(s) ==
  IF s # <<>> /\ Head(s) = " " THEN TrimStart(Tail(s)) ELSE s

RECURSIVE TrimEnd(_)
TrimEnd(s) ==
  IF s # <<>> /\ s[Len(s)] = " " THEN TrimEnd(SubSeq(s, 1, Len(s) - 1)) ELSE s

\* the draft name taken as typed
Untrimmed(s) == s

\* String.prototype.trim
Trim(s) == TrimEnd(TrimStart(s))

\* Array.prototype.includes on a sequence
SeqIncludes(s, x) == \E i \in 1..Len(s) : s[i] = x

\* Array.prototype.filter keeping the elements different from x
RECURSIVE Without(_, _)
Without(s, x) ==
  IF s = <<>> THEN <<>>
  ELSE IF Head(s) = x THEN Without(Tail(s), x)
       ELSE <<Head(s)>> \o Without(Tail(s), x)

\* the first argument, whatever the second
Unclamped(a, b) == a

Min(a, b) == IF a <= b THEN a ELSE b
Max(a, b) == IF a >= b THEN a ELSE b

\* ------------------------------------------------------------------- data
PRESET_COLORS ==
  << "#3b82f6", "#10b981", "#f59e0b", "#ef4444",
     "#8b5cf6", "#ec4899", "#06b6d4", "#64748b" >>

\* the values of Math.floor(Math.random() * PRESET_COLORS.length) in use
RandomPicks == {0, 1}

\* the palette buttons in use
ColorChoices == {PRESET_COLORS[r + 1] : r \in RandomPicks}

\* type Tag = { name, color }
Tag(n, c) == [name |-> n, color |-> c]

\* type Profile = { folder, name, email? }; hasEmail is FALSE when the field
\* is absent
Profile(f, n, he, e) == [folder |-> f, name |-> n, hasEmail |-> he, email |-> e]

ProfileA == Profile("a", <<"A", "b">>, FALSE, <<>>)
ProfileB == Profile("b", <<"B">>, TRUE, <<"b", "a">>)

\* what get_profiles can answer
GetProfilesResults == { <<ProfileA, ProfileB>> }

\* an entry of a get_tags answer: a bare string (legacy) or a Tag
RawString(n) == [isString |-> TRUE, name |-> n, color |-> ""]
RawTag(n, c) == [isString |-> FALSE, name |-> n, color |-> c]

\* one key of a Record<string, ...>, in the object's own key order
Entry(f, l) == [folder |-> f, list |-> l]

\* what get_tags can answer: mappings folder -> list of (Tag or legacy string)
GetTagsResults ==
  { <<>>,
    << Entry("a", <<RawString(<<"W">>)>>) >>,
    << Entry("a", <<RawTag(<<"W">>, PRESET_COLORS[2])>>),
       Entry("b", <<RawTag(<<"w">>, PRESET_COLORS[1])>>) >>,
    << Entry("b", <<RawTag(<<"W">>, PRESET_COLORS[1]), RawString(<<"w">>)>>) >> }

\* what the user can type into the search field
SearchTexts == { <<>>, <<"A">>, <<"a", "B">>, <<"b", "a">>, <<"A", "A">> }

\* what the user can type into the tag-name field of the add-tag modal
DraftNames == { <<>>, <<" ">>, <<"W">>, <<" ", "w", " ">> }

\* keys that reach handleKey
Keys == {"ArrowDown", "ArrowUp", "Enter", "Escape", "Tab"}

\* --------------------------------------------------------------- the state
VARIABLES
  profiles,            \* let profiles: Profile[]
  search,              \* let search
  tags,                \* let tags: Record<string, Tag[]>, keys in insertion order
  selected,            \* let selected
  addModalOpen,        \* let addModalOpen
  addModalFolder,      \* let addModalFolder
  newTagName,          \* let newTagName
  newTagColor,         \* let newTagColor
  removeModalOpen,     \* let removeModalOpen
  removeModalFolder,   \* let removeModalFolder
  removeModalTag,      \* let removeModalTag: Tag | null, <<>> for null, <<t>> for t
  selectedFilterTags,  \* let selectedFilterTags: string[]
  mountPc,             \* where the async onMount callback stands
  focus,               \* document.activeElement: "search", "new-tag-input", "other"
  focusTimers,         \* pending setTimeout callbacks of openAddTagModal
  saves,               \* the promises of save_tags calls not yet resumed from
  savedTags,           \* the tags argument of the latest save_tags call
  launches             \* launch_profile calls in flight

vars ==
  << profiles, search, tags, selected, addModalOpen, addModalFolder, newTagName,
     newTagColor, removeModalOpen, removeModalFolder, removeModalTag,
     selectedFilterTags, mountPc, focus, focusTimers, saves,
     savedTags, launches >>

addModalVars == << addModalOpen, addModalFolder, newTagName, newTagColor >>
removeModalVars == << removeModalOpen, removeModalFolder, removeModalTag >>
bridgeVars == << saves, savedTags, launches >>

\* ------------------------------------------------- Record<string, Tag[]>
\* tags[folder] || []
TagsOf(t, folder) ==
  IF \E i \in 1..Len(t) : t[i].folder = folder
  THEN t[CHOOSE i \in 1..Len(t) : t[i].folder = folder].list
  ELSE <<>>

\* tags[folder] = list; tags = { ...tags }: an existing key keeps its place, a
\* new key goes last
SetTagsOf(t, folder, list) ==
  IF \E i \in 1..Len(t) : t[i].folder = folder
  THEN [i \in 1..Len(t) |-> IF t[i].folder = folder THEN Entry(folder, list) ELSE t[i]]
  ELSE Append(t, Entry(folder, list))

\* Object.values(tags).flat()
RECURSIVE FlatTags(_)
FlatTags(t) == IF t = <<>> THEN <<>> ELSE Head(t).list \o FlatTags(Tail(t))

\* the names the filter dropdown offers: the keys of the Map built for
\* allUniqueTags, one checkbox per key
OfferedTagNames == {FlatTags(tags)[i].name : i \in 1..Len(FlatTags(tags))}

\* the keys of new Map(flat.map(t => [t.name, t])): a key keeps the place of
\* its first insertion
RECURSIVE MapKeys(_)
MapKeys(flat) ==
  IF flat = <<>> THEN <<>>
  ELSE LET before == MapKeys(SubSeq(flat, 1, Len(flat) - 1))
           key == flat[Len(flat)].name
       IN IF SeqIncludes(before, key) THEN before ELSE Append(before, key)

\* the value the Map holds for a key: the one set last
MapValue(flat, key) ==
  flat[CHOOSE i \in 1..Len(flat) :
         /\ flat[i].name = key
         /\ \A j \in (i + 1)..Len(flat) : flat[j].name # key]

\* Array.from(map.values())
MapValues(flat) ==
  [i \in 1..Len(MapKeys(flat)) |-> MapValue(flat, MapKeys(flat)[i])]

\* the collation weights localeCompare gives the characters of the model:
\* the space before the letters, the letters in alphabetical order whatever
\* their case, and on a tie the lower-case letter before the upper-case one
PrimaryWeight(c) ==
  CASE c = " " -> 0
    [] c \in {"a", "A"} -> 1
    [] c \in {"b", "B"} -> 2
    [] c \in {"w", "W"} -> 3
    [] OTHER -> 4
TertiaryWeight(c) == IF c \in {"A", "B", "W"} THEN 1 ELSE 0

\* the order of two sequences of weights, as -1, 0 or 1
RECURSIVE CompareWeights(_, _)
CompareWeights(k, m) ==
  IF k = <<>> /\ m = <<>> THEN 0
  ELSE IF k = <<>> THEN -1
  ELSE IF m = <<>> THEN 1
  ELSE IF Head(k) < Head(m) THEN -1
  ELSE IF Head(k) > Head(m) THEN 1
  ELSE CompareWeights(Tail(k), Tail(m))

\* String.prototype.localeCompare
LocaleCompare(a, b) ==
  LET primary == CompareWeights([i \in 1..Len(a) |-> PrimaryWeight(a[i])],
                                [i \in 1..Len(b) |-> PrimaryWeight(b[i])])
  IN IF primary # 0 THEN primary
     ELSE CompareWeights([i \in 1..Len(a) |-> TertiaryWeight(a[i])],
                         [i \in 1..Len(b) |-> TertiaryWeight(b[i])])

\* sort((a, b) => a.name.localeCompare(b.name)), a stable sort
RECURSIVE SortByName(_)
SortByName(list) ==
  IF list = <<>> THEN <<>>
  ELSE LET sorted == SortByName(SubSeq(list, 1, Len(list) - 1))
           x == list[Len(list)]
           n == Cardinality({i \in 1..Len(sorted) :
                               LocaleCompare(sorted[i].name, x.name) <= 0})
       IN SubSeq(sorted, 1, n) \o <<x>> \o SubSeq(sorted, n + 1, Len(sorted))

\* $: allUniqueTags
allUniqueTags == SortByName(MapValues(FlatTags(tags)))

\* typeof t === 'string' ? { name: t, color: PRESET_COLORS[1] } : t
ParseTagOtherColor(raw) ==
  IF raw.isString THEN Tag(raw.name, PRESET_COLORS[2]) ELSE Tag(raw.name, raw.color)

\* typeof t === 'string' ? { name: t, color: PRESET_COLORS[0] } : t
ParseTag(raw) ==
  IF raw.isString THEN Tag(raw.name, PRESET_COLORS[1]) ELSE Tag(raw.name, raw.color)

\* parsedTags, built key by key from the get_tags answer
ParseTags(loaded) ==
  [i \in 1..Len(loaded) |->
     Entry(loaded[i].folder,
           [j \in 1..Len(loaded[i].list) |-> ParseTag(loaded[i].list[j])])]

\* ------------------------------------------------------- filteredProfiles
\* profileTagNames
ProfileTagNames(t, p) ==
  [i \in 1..Len(TagsOf(t, p.folder)) |-> TagsOf(t, p.folder)[i].name]

\* p.email || ""
EmailOrEmpty(p) == IF p.hasEmail THEN p.email ELSE <<>>

\* matchesText with the search text compared as typed
MatchesTextAsTyped(p, s) ==
  \/ Includes(ToLowerCase(p.name), s)
  \/ Includes(ToLowerCase(EmailOrEmpty(p)), s)

\* matchesText
MatchesText(p, s) ==
  \/ Includes(ToLowerCase(p.name), ToLowerCase(s))
  \/ Includes(ToLowerCase(EmailOrEmpty(p)), ToLowerCase(s))

\* matchesTags
MatchesTags(p, t, sel) ==
  \/ Len(sel) = 0
  \/ \A i \in 1..Len(sel) : SeqIncludes(ProfileTagNames(t, p), sel[i])

\* profiles.filter(...)
RECURSIVE FilterProfiles(_, _, _, _)
FilterProfiles(ps, s, t, sel) ==
  IF ps = <<>> THEN <<>>
  ELSE IF MatchesText(Head(ps), s) /\ MatchesTags(Head(ps), t, sel)
       THEN <<Head(ps)>> \o FilterProfiles(Tail(ps), s, t, sel)
       ELSE FilterProfiles(Tail(ps), s, t, sel)

\* $: filteredProfiles
filteredProfiles == FilterProfiles(profiles, search, tags, selectedFilterTags)

AnyModalOpen == addModalOpen \/ removeModalOpen

\* ------------------------------------------------------------------- Init
\* the component right after construction: the declarations of the script,
\* the first run of the reactive block, onMount waiting for get_profiles
Init ==
  /\ profiles = <<>>
  /\ search = <<>>
  /\ tags = <<>>
  /\ selected = 0
  /\ addModalOpen = FALSE
  /\ addModalFolder = ""
  /\ newTagName = <<>>
  /\ newTagColor = PRESET_COLORS[1]
  /\ removeModalOpen = FALSE
  /\ removeModalFolder = ""
  /\ removeModalTag = <<>>
  /\ selectedFilterTags = <<>>
  /\ mountPc = "get_profiles"
  /\ focus = "other"
  /\ focusTimers = 0
  /\ saves = EmptyBag
  /\ savedTags = <<>>
  /\ launches = EmptyBag

\* ---------------------------------------------------------------- onMount
\* profiles = await invoke("get_profiles")
GetProfilesResolved(loaded) ==
  /\ mountPc = "get_profiles"
  /\ profiles' = loaded
  /\ mountPc' = "get_tags"
  /\ UNCHANGED << search, tags, selected, addModalVars, removeModalVars,
                  selectedFilterTags, focus, focusTimers,
                  bridgeVars >>

\* get_profiles rejects: the catch block, then the focus call
GetProfilesRejected ==
  /\ mountPc = "get_profiles"
  /\ mountPc' = "done"
  /\ focus' = "search"
  /\ UNCHANGED << profiles, search, tags, selected, addModalVars,
                  removeModalVars, selectedFilterTags, focusTimers, bridgeVars >>

\* loadedTags = await invoke("get_tags"); tags = parsedTags; the focus call
GetTagsResolved(loadedTags) ==
  /\ mountPc = "get_tags"
  /\ tags' = ParseTags(loadedTags)
  /\ mountPc' = "done"
  /\ focus' = "search"
  /\ UNCHANGED << profiles, search, selected, addModalVars, removeModalVars,
                  selectedFilterTags, focusTimers, bridgeVars >>

\* get_tags rejects: the catch block, then the focus call
GetTagsRejected ==
  /\ mountPc = "get_tags"
  /\ mountPc' = "done"
  /\ focus' = "search"
  /\ UNCHANGED << profiles, search, tags, selected, addModalVars,
                  removeModalVars, selectedFilterTags, focusTimers, bridgeVars >>

\* ------------------------------------------------------ search and filter
\* the reactive block without its assignment
SelectedUntouched(sel) == sel

\* $: { search; selectedFilterTags; selected = 0; }
RerunReactiveBlock(sel) == 0

\* bind:value={search}; the reactive block then runs selected = 0
TypeSearch(s) ==
  /\ s # search
  /\ search' = s
  /\ selected' = RerunReactiveBlock(selected)
  /\ focus' = "search"
  /\ UNCHANGED << profiles, tags, addModalVars, removeModalVars,
                  selectedFilterTags, mountPc, focusTimers,
                  bridgeVars >>

\* toggleFilterTag, from a checkbox of the dropdown; the assignment to
\* selectedFilterTags makes the reactive block run selected = 0
toggleFilterTag(tagName) ==
  /\ tagName \in OfferedTagNames
  /\ selectedFilterTags' =
       IF SeqIncludes(selectedFilterTags, tagName)
       THEN Without(selectedFilterTags, tagName)
       ELSE Append(selectedFilterTags, tagName)
  /\ selected' = RerunReactiveBlock(selected)
  /\ focus' = "search"
  /\ UNCHANGED << profiles, search, tags, addModalVars, removeModalVars,
                  mountPc, focusTimers, bridgeVars >>

\* ----------------------------------------------------------------- launch
\* the folders of the cards on screen
CardFolders == {filteredProfiles[i].folder : i \in 1..Len(filteredProfiles)}

\* invoke("launch_profile") with the folder of the first card, whatever
\* the folder asked for
openProfileFirstCard(folder) ==
  /\ BagCardinality(launches) < MaxLaunches
  /\ launches' = launches (+) SetToBag({filteredProfiles[1].folder})

\* openProfile: invoke("launch_profile", { folder }).catch(...)
openProfile(folder) ==
  /\ BagCardinality(launches) < MaxLaunches
  /\ launches' = launches (+) SetToBag({folder})

\* a click on a card, or on its launch button
ClickCard(folder) ==
  /\ folder \in CardFolders
  /\ openProfile(folder)
  /\ UNCHANGED << profiles, search, tags, selected, addModalVars,
                  removeModalVars, selectedFilterTags, mountPc, focus,
                  focusTimers, saves, savedTags >>

\* a launch_profile call settles; a rejection only logs
LaunchSettled ==
  /\ \E f \in BagToSet(launches) : launches' = launches (-) SetToBag({f})
  /\ UNCHANGED << profiles, search, tags, selected, addModalVars,
                  removeModalVars, selectedFilterTags, mountPc,
                  focus,
                  focusTimers, saves, savedTags >>

\* on:mouseenter of card i (0-based); the pointer reaches a card only when no
\* modal backdrop (fixed inset-0) lies over the list
MouseEnterCard(i) ==
  /\ ~AnyModalOpen
  /\ i \in 0..(Len(filteredProfiles) - 1)
  /\ selected' = i
  /\ UNCHANGED << profiles, search, tags, addModalVars, removeModalVars,
                  selectedFilterTags, mountPc, focus,
                  focusTimers, bridgeVars >>

\* ----------------------------------------------------------------- modals
\* where the focus is once an element is gone from the page: an element of a
\* closed add-tag modal cannot keep it
FocusAfterAddModalGone(fo) == IF fo = "new-tag-input" THEN "other" ELSE fo

\* Array.prototype.filter on a tag list: t.name !== name
RECURSIVE WithoutName(_, _)
WithoutName(list, name) ==
  IF list = <<>> THEN <<>>
  ELSE IF Head(list).name = name THEN WithoutName(Tail(list), name)
       ELSE <<Head(list)>> \o WithoutName(Tail(list), name)

\* some(t => t.name === cleanName)
HasTagNamedExactly(list, cleanName) ==
  \E i \in 1..Len(list) : list[i].name = cleanName

\* some(t => t.name.toLowerCase() === cleanName.toLowerCase())
HasTagNamed(list, cleanName) ==
  \E i \in 1..Len(list) : ToLowerCase(list[i].name) = ToLowerCase(cleanName)

\* the promise of invoke("save_tags", { tags }): who awaits it, and its state
\* "pending", "ok" (resolved) or "error" (rejected)
SaveCall(caller, status) == [caller |-> caller, status |-> status]

\* invoke("save_tags") with the mapping as it was before the mutation
InvokeSaveTagsStale(caller, payload) ==
  /\ BagCardinality(saves) < MaxInFlight
  /\ saves' = saves (+) SetToBag({SaveCall(caller, "pending")})
  /\ savedTags' = tags

\* invoke("save_tags", { tags }) from caller, with the mapping payload
InvokeSaveTags(caller, payload) ==
  /\ BagCardinality(saves) < MaxInFlight
  /\ saves' = saves (+) SetToBag({SaveCall(caller, "pending")})
  /\ savedTags' = payload

\* openAddTagModal, from the add-tag button of a card; random is
\* Math.floor(Math.random() * PRESET_COLORS.length).  The button is reached
\* with the pointer or with the keyboard, and takes the focus where the
\* platform gives clicked buttons the focus
openAddTagModal(folder, random) ==
  /\ folder \in CardFolders
  /\ focusTimers < MaxTimers
  /\ addModalFolder' = folder
  /\ newTagName' = <<>>
  /\ newTagColor' = PRESET_COLORS[random + 1]
  /\ addModalOpen' = TRUE
  /\ focusTimers' = focusTimers + 1
  /\ \E fo \in {focus, "other"} : focus' = fo
  /\ UNCHANGED << profiles, search, tags, selected, removeModalVars,
                  selectedFilterTags, mountPc, bridgeVars >>

\* the setTimeout callback of openAddTagModal:
\* document.getElementById("new-tag-input")?.focus()
FocusTimerFired ==
  /\ focusTimers > 0
  /\ focusTimers' = focusTimers - 1
  /\ focus' = IF addModalOpen THEN "new-tag-input" ELSE focus
  /\ UNCHANGED << profiles, search, tags, selected, addModalVars,
                  removeModalVars, selectedFilterTags, mountPc,
                  bridgeVars >>

\* bind:value={newTagName}
TypeNewTagName(s) ==
  /\ addModalOpen
  /\ s # newTagName
  /\ newTagName' = s
  /\ focus' = "new-tag-input"
  /\ UNCHANGED << profiles, search, tags, selected, addModalOpen,
                  addModalFolder, newTagColor, removeModalVars,
                  selectedFilterTags, mountPc, focusTimers,
                  bridgeVars >>

\* a palette button or the colour input: newTagColor = color
PickColor(c) ==
  /\ addModalOpen
  /\ c # newTagColor
  /\ newTagColor' = c
  /\ focus' = "other"
  /\ UNCHANGED << profiles, search, tags, selected, addModalOpen,
                  addModalFolder, newTagName, removeModalVars,
                  selectedFilterTags, mountPc, focusTimers,
                  bridgeVars >>

\* confirmAddTag up to its return or its await
confirmAddTag ==
  LET cleanName == Trim(newTagName)
      list == TagsOf(tags, addModalFolder)
      newTags == SetTagsOf(tags, addModalFolder,
                           Append(list, Tag(cleanName, newTagColor)))
  IN IF cleanName = <<>>
     THEN /\ addModalOpen' = FALSE
          /\ focus' = FocusAfterAddModalGone(focus)
          /\ UNCHANGED << profiles, search, tags, selected, addModalFolder,
                          newTagName, newTagColor, removeModalVars,
                          selectedFilterTags, mountPc,
                          focusTimers, bridgeVars >>
     ELSE IF HasTagNamed(list, cleanName)
     THEN /\ addModalOpen' = FALSE
          /\ focus' = "search"
          /\ UNCHANGED << profiles, search, tags, selected, addModalFolder,
                          newTagName, newTagColor, removeModalVars,
                          selectedFilterTags, mountPc,
                          focusTimers, bridgeVars >>
     ELSE /\ tags' = newTags
          /\ InvokeSaveTags("confirmAddTag", newTags)
          /\ UNCHANGED << profiles, search, selected, addModalVars,
                          removeModalVars, selectedFilterTags, mountPc, focus,
                          focusTimers, launches >>

\* the Save Tag button, or Enter in the tag-name field
ConfirmAddTag ==
  /\ addModalOpen
  /\ confirmAddTag

\* Escape in the tag-name field: addModalOpen = false
EscapeInTagInput ==
  /\ addModalOpen
  /\ addModalOpen' = FALSE
  /\ focus' = FocusAfterAddModalGone(focus)
  /\ UNCHANGED << profiles, search, tags, selected, addModalFolder, newTagName,
                  newTagColor, removeModalVars, selectedFilterTags,
                  mountPc, focusTimers, bridgeVars >>

\* a click on the backdrop of the add-tag modal: addModalOpen = false; the
\* click lands on no focusable element
ClickAddBackdrop ==
  /\ addModalOpen
  /\ addModalOpen' = FALSE
  /\ focus' = "other"
  /\ UNCHANGED << profiles, search, tags, selected, addModalFolder, newTagName,
                  newTagColor, removeModalVars, selectedFilterTags, mountPc,
                          focusTimers, bridgeVars >>

\* the Cancel button of the add-tag modal
CancelAddTag ==
  /\ addModalOpen
  /\ addModalOpen' = FALSE
  /\ focus' = "search"
  /\ UNCHANGED << profiles, search, tags, selected, addModalFolder, newTagName,
                  newTagColor, removeModalVars, selectedFilterTags,
                  mountPc, focusTimers, bridgeVars >>

\* openRemoveTagModal, from the remove button of a tag on a card
openRemoveTagModal(folder, tag) ==
  /\ folder \in CardFolders
  /\ SeqIncludes(TagsOf(tags, folder), tag)
  /\ removeModalFolder' = folder
  /\ removeModalTag' = <<tag>>
  /\ removeModalOpen' = TRUE
  /\ \E fo \in {focus, "other"} : focus' = fo
  /\ UNCHANGED << profiles, search, tags, selected, addModalVars,
                  selectedFilterTags, mountPc, focusTimers,
                  bridgeVars >>

\* selectedFilterTags left as it is, whatever remains
UnpurgedFilter(sel, name, remainingGlobal) == sel

\* if (!remainingGlobal) selectedFilterTags = selectedFilterTags.filter(...)
PurgedFilter(sel, name, remainingGlobal) ==
  IF ~remainingGlobal THEN Without(sel, name) ELSE sel

\* confirmRemoveTag up to its return or its await; the assignment to
\* selectedFilterTags makes the reactive block run selected = 0
confirmRemoveTag ==
  IF removeModalTag # <<>> /\ removeModalFolder # ""
  THEN LET name == removeModalTag[1].name
           newTags == SetTagsOf(tags, removeModalFolder,
                                WithoutName(TagsOf(tags, removeModalFolder), name))
           remainingGlobal ==
             \E i \in 1..Len(FlatTags(newTags)) : FlatTags(newTags)[i].name = name
       IN /\ tags' = newTags
          /\ selectedFilterTags' =
               PurgedFilter(selectedFilterTags, name, remainingGlobal)
          /\ selected' = IF ~remainingGlobal THEN RerunReactiveBlock(selected)
                          ELSE selected
          /\ InvokeSaveTags("confirmRemoveTag", newTags)
          /\ UNCHANGED << profiles, search, addModalVars, removeModalVars,
                          mountPc, focus, focusTimers,
                          launches >>
  ELSE /\ removeModalOpen' = FALSE
       /\ focus' = "search"
       /\ UNCHANGED << profiles, search, tags, selected, addModalVars,
                       removeModalFolder, removeModalTag, selectedFilterTags,
                       mountPc, focusTimers, bridgeVars >>

\* the Remove button of the remove-tag modal
ConfirmRemoveTag ==
  /\ removeModalOpen
  /\ confirmRemoveTag

\* a click on the backdrop of the remove-tag modal
ClickRemoveBackdrop ==
  /\ removeModalOpen
  /\ removeModalOpen' = FALSE
  /\ focus' = "other"
  /\ UNCHANGED << profiles, search, tags, selected, addModalVars,
                  removeModalFolder, removeModalTag, selectedFilterTags, mountPc,
                          focusTimers, bridgeVars >>

\* the Cancel button of the remove-tag modal
CancelRemoveTag ==
  /\ removeModalOpen
  /\ removeModalOpen' = FALSE
  /\ focus' = "search"
  /\ UNCHANGED << profiles, search, tags, selected, addModalVars,
                  removeModalFolder, removeModalTag, selectedFilterTags,
                  mountPc, focusTimers, bridgeVars >>

\* ------------------------------------------------- save_tags settles
\* the callers that can await a save_tags call
Callers == {"confirmAddTag", "confirmRemoveTag"}

\* the bridge resolves a pending save_tags call of caller
SaveTagsResolved(caller) ==
  /\ BagIn(SaveCall(caller, "pending"), saves)
  /\ saves' = (saves (-) SetToBag({SaveCall(caller, "pending")}))
                (+) SetToBag({SaveCall(caller, "ok")})
  /\ UNCHANGED << profiles, search, tags, selected, addModalVars,
                  removeModalVars, selectedFilterTags, mountPc, focus,
                  focusTimers, savedTags, launches >>

\* the bridge rejects a pending save_tags call of caller
SaveTagsRejected(caller) ==
  /\ BagIn(SaveCall(caller, "pending"), saves)
  /\ saves' = (saves (-) SetToBag({SaveCall(caller, "pending")}))
                (+) SetToBag({SaveCall(caller, "error")})
  /\ UNCHANGED << profiles, search, tags, selected, addModalVars,
                  removeModalVars, selectedFilterTags, mountPc, focus,
                  focusTimers, savedTags, launches >>

\* the caller's modal flag after an await without the .catch: a rejection
\* throws out of the caller before the flag is cleared
ModalOpenAfterUncaughtSave(status, open) ==
  IF status = "error" THEN open ELSE FALSE

\* the value of the caller's modal flag once the awaited save_tags call has
\* settled with status: .catch(() => {}) turns a rejection into a normal
\* return, and the next statement is addModalOpen = false (confirmAddTag) or
\* removeModalOpen = false (confirmRemoveTag)
ModalOpenAfterSave(status, open) == FALSE

\* the rest of confirmAddTag / confirmRemoveTag after the await of a call
\* that has settled with status
ResumeAfterSave(caller, status) ==
  /\ status # "pending"
  /\ BagIn(SaveCall(caller, status), saves)
  /\ saves' = saves (-) SetToBag({SaveCall(caller, status)})
  /\ IF caller = "confirmAddTag"
     THEN /\ addModalOpen' = ModalOpenAfterSave(status, addModalOpen)
          /\ UNCHANGED removeModalOpen
     ELSE /\ removeModalOpen' = ModalOpenAfterSave(status, removeModalOpen)
          /\ UNCHANGED addModalOpen
  /\ focus' = "search"
  /\ UNCHANGED << profiles, search, tags, selected, addModalFolder, newTagName,
                  newTagColor, removeModalFolder, removeModalTag,
                  selectedFilterTags, mountPc, focusTimers, savedTags, launches >>

\* --------------------------------------------------------------- handleKey
\* handleKey below its two modal branches: the list navigation
navigate(key) ==
  IF key = "ArrowDown"
  THEN /\ selected' = Min(selected + 1, Len(filteredProfiles) - 1)
       /\ UNCHANGED << profiles, search, tags, addModalVars, removeModalVars,
                       selectedFilterTags, mountPc, focus, focusTimers,
                       bridgeVars >>
  ELSE IF key = "ArrowUp"
  THEN /\ selected' = Max(selected - 1, 0)
       /\ UNCHANGED << profiles, search, tags, addModalVars, removeModalVars,
                       selectedFilterTags, mountPc, focus, focusTimers,
                       bridgeVars >>
  ELSE IF key = "Enter" /\ selected >= 0 /\ selected < Len(filteredProfiles)
  THEN /\ openProfile(filteredProfiles[selected + 1].folder)
       /\ UNCHANGED << profiles, search, tags, selected, addModalVars,
                       removeModalVars, selectedFilterTags, mountPc, focus,
                       focusTimers, saves, savedTags >>
  ELSE UNCHANGED vars

\* handleKey without its two modal branches
handleKeyModalBlind(key) == navigate(key)

\* handleKey, for a keydown that reaches <main>
handleKey(key) ==
  IF addModalOpen
  THEN IF key = "Enter" THEN confirmAddTag
       ELSE IF key = "Escape"
       THEN /\ addModalOpen' = FALSE
            /\ focus' = FocusAfterAddModalGone(focus)
            /\ UNCHANGED << profiles, search, tags, selected, addModalFolder,
                            newTagName, newTagColor, removeModalVars,
                            selectedFilterTags, mountPc, focusTimers,
                            bridgeVars >>
       ELSE UNCHANGED vars
  ELSE IF removeModalOpen
  THEN IF key = "Enter" THEN confirmRemoveTag
       ELSE IF key = "Escape"
       THEN /\ removeModalOpen' = FALSE
            /\ UNCHANGED << profiles, search, tags, selected, addModalVars,
                            removeModalFolder, removeModalTag,
                            selectedFilterTags, mountPc, focus, focusTimers,
                            bridgeVars >>
       ELSE UNCHANGED vars
  ELSE navigate(key)

\* ------------------------------------------------------- specifications
\* the whole program: every handler with every input of the model
Next ==
  \/ \E r \in GetProfilesResults : GetProfilesResolved(r)
  \/ GetProfilesRejected
  \/ \E r \in GetTagsResults : GetTagsResolved(r)
  \/ GetTagsRejected
  \/ \E s \in SearchTexts : TypeSearch(s)
  \/ \E n \in OfferedTagNames : toggleFilterTag(n)
  \/ \E f \in CardFolders : ClickCard(f)
  \/ LaunchSettled
  \/ \E i \in 0..(Len(profiles) - 1) : MouseEnterCard(i)
  \/ \E k \in Keys : handleKey(k)
  \/ \E f \in CardFolders : \E r \in RandomPicks : openAddTagModal(f, r)
  \/ FocusTimerFired
  \/ \E s \in DraftNames : TypeNewTagName(s)
  \/ \E c \in ColorChoices : PickColor(c)
  \/ ConfirmAddTag
  \/ EscapeInTagInput
  \/ ClickAddBackdrop
  \/ CancelAddTag
  \/ \E f \in CardFolders :
       \E i \in 1..Len(TagsOf(tags, f)) : openRemoveTagModal(f, TagsOf(tags, f)[i])
  \/ ConfirmRemoveTag
  \/ ClickRemoveBackdrop
  \/ CancelRemoveTag
  \/ \E c \in Callers : SaveTagsResolved(c)
  \/ \E c \in Callers : SaveTagsRejected(c)
  \/ \E c \in Callers : \E st \in {"ok", "error"} : ResumeAfterSave(c, st)

Spec == Init /\ [][Next]_vars

\* loading, searching, filtering, moving the selection and launching: the
\* user never opens a modal
NavNext ==
  \/ \E r \in GetProfilesResults : GetProfilesResolved(r)
  \/ GetProfilesRejected
  \/ \E r \in GetTagsResults : GetTagsResolved(r)
  \/ GetTagsRejected
  \/ \E s \in SearchTexts : TypeSearch(s)
  \/ \E n \in OfferedTagNames : toggleFilterTag(n)
  \/ \E f \in CardFolders : ClickCard(f)
  \/ LaunchSettled
  \/ \E i \in 0..(Len(profiles) - 1) : MouseEnterCard(i)
  \/ \E k \in Keys : handleKey(k)

NavSpec == Init /\ [][NavNext]_vars

\* the get_tags answer of AddSpec: one tag on folder a, none on folder b
AddLoads == { << Entry("a", <<RawTag(<<"W">>, PRESET_COLORS[3])>>) >> }

\* the add-tag flow alone: the user never opens the remove-tag modal, never
\* searches or filters and presses no key outside the tag-name field
AddNext ==
  \/ \E r \in GetProfilesResults : GetProfilesResolved(r)
  \/ GetProfilesRejected
  \/ \E r \in AddLoads : GetTagsResolved(r)
  \/ GetTagsRejected
  \/ \E f \in CardFolders : \E r \in RandomPicks : openAddTagModal(f, r)
  \/ FocusTimerFired
  \/ \E s \in DraftNames : TypeNewTagName(s)
  \/ \E c \in ColorChoices : PickColor(c)
  \/ ConfirmAddTag
  \/ EscapeInTagInput
  \/ ClickAddBackdrop
  \/ CancelAddTag
  \/ \E c \in Callers : SaveTagsResolved(c)
  \/ \E c \in Callers : SaveTagsRejected(c)
  \/ \E c \in Callers : \E st \in {"ok", "error"} : ResumeAfterSave(c, st)

AddSpec == Init /\ [][AddNext]_vars

\* the remove-tag flow with the filter and the keyboard: the user never opens
\* the add-tag modal and never searches
RemoveNext ==
  \/ \E r \in GetProfilesResults : GetProfilesResolved(r)
  \/ GetProfilesRejected
  \/ \E r \in GetTagsResults : GetTagsResolved(r)
  \/ GetTagsRejected
  \/ \E n \in OfferedTagNames : toggleFilterTag(n)
  \/ LaunchSettled
  \/ \E i \in 0..(Len(profiles) - 1) : MouseEnterCard(i)
  \/ \E k \in Keys : handleKey(k)
  \/ \E f \in CardFolders :
       \E i \in 1..Len(TagsOf(tags, f)) : openRemoveTagModal(f, TagsOf(tags, f)[i])
  \/ ConfirmRemoveTag
  \/ ClickRemoveBackdrop
  \/ CancelRemoveTag
  \/ \E c \in Callers : SaveTagsResolved(c)
  \/ \E c \in Callers : SaveTagsRejected(c)
  \/ \E c \in Callers : \E st \in {"ok", "error"} : ResumeAfterSave(c, st)

RemoveSpec == Init /\ [][RemoveNext]_vars

\* the get_tags answers, the draft names and the random picks of the two
\* specifications below
TagLoads ==
  { << Entry("b", <<RawTag(<<"W">>, PRESET_COLORS[1]), RawString(<<"w">>)>>) >> }
TagDrafts == { <<>>, <<" ", "w", " ">> }
TagPicks == {1}

\* both modal flows through their buttons, the tag-name field and the
\* backdrops, over a narrower choice of inputs: the user never searches, never
\* toggles a filter, never picks a colour and presses no key outside the
\* tag-name field
SaveNext ==
  \/ \E r \in GetProfilesResults : GetProfilesResolved(r)
  \/ \E r \in TagLoads : GetTagsResolved(r)
  \/ \E f \in CardFolders : \E r \in TagPicks : openAddTagModal(f, r)
  \/ FocusTimerFired
  \/ \E s \in TagDrafts : TypeNewTagName(s)
  \/ ConfirmAddTag
  \/ EscapeInTagInput
  \/ ClickAddBackdrop
  \/ CancelAddTag
  \/ \E f \in CardFolders :
       \E i \in 1..Len(TagsOf(tags, f)) : openRemoveTagModal(f, TagsOf(tags, f)[i])
  \/ ConfirmRemoveTag
  \/ ClickRemoveBackdrop
  \/ CancelRemoveTag
  \/ \E c \in Callers : SaveTagsResolved(c)
  \/ \E c \in Callers : SaveTagsRejected(c)
  \/ \E c \in Callers : \E st \in {"ok", "error"} : ResumeAfterSave(c, st)

SaveSpec == Init /\ [][SaveNext]_vars

\* SaveSpec with the keyboard: the keys that reach handleKey and the launches
\* they start
TagNext ==
  \/ SaveNext
  \/ \E k \in Keys : handleKey(k)
  \/ LaunchSettled

TagSpec == Init /\ [][TagNext]_vars

\* RemoveSpec with the search field: the user searches, filters, moves the
\* selection and removes tags
FilterNext ==
  \/ RemoveNext
  \/ \E s \in SearchTexts : TypeSearch(s)

FilterSpec == Init /\ [][FilterNext]_vars

\* the draft names of CloseSpec
CloseDrafts == { <<" ">> }

\* the ways out of the two modals: the keys, the buttons and the backdrops;
\* the user types nothing but spaces into the tag-name field
CloseNext ==
  \/ \E r \in GetProfilesResults : GetProfilesResolved(r)
  \/ \E r \in TagLoads : GetTagsResolved(r)
  \/ \E f \in CardFolders : \E r \in TagPicks : openAddTagModal(f, r)
  \/ FocusTimerFired
  \/ \E s \in CloseDrafts : TypeNewTagName(s)
  \/ ConfirmAddTag
  \/ EscapeInTagInput
  \/ ClickAddBackdrop
  \/ CancelAddTag
  \/ \E f \in CardFolders :
       \E i \in 1..Len(TagsOf(tags, f)) : openRemoveTagModal(f, TagsOf(tags, f)[i])
  \/ ClickRemoveBackdrop
  \/ CancelRemoveTag
  \/ \E k \in Keys : handleKey(k)
  \/ LaunchSettled
  \/ \E c \in Callers : SaveTagsResolved(c)
  \/ \E c \in Callers : SaveTagsRejected(c)
  \/ \E c \in Callers : \E st \in {"ok", "error"} : ResumeAfterSave(c, st)

CloseSpec == Init /\ [][CloseNext]_vars

\* the draft names of MutateSpec: the user never leaves the field empty by
\* hand, so an empty draft is the one openAddTagModal has just set
MutateDrafts == { <<" ", "w", " ">> }

\* the get_tags answers of MutateSpec
MutateLoads == TagLoads \cup AddLoads

\* tags added and removed while the filter is in use, with calls still in
\* flight: the user filters, points at cards, adds the tag w, removes tags,
\* and leaves the add-tag modal by its backdrop
MutateNext ==
  \/ \E r \in GetProfilesResults : GetProfilesResolved(r)
  \/ \E r \in MutateLoads : GetTagsResolved(r)
  \/ \E n \in OfferedTagNames : toggleFilterTag(n)
  \/ \E i \in 0..(Len(profiles) - 1) : MouseEnterCard(i)
  \/ \E f \in CardFolders : \E r \in TagPicks : openAddTagModal(f, r)
  \/ FocusTimerFired
  \/ \E s \in MutateDrafts : TypeNewTagName(s)
  \/ ConfirmAddTag
  \/ ClickAddBackdrop
  \/ \E f \in CardFolders :
       \E i \in 1..Len(TagsOf(tags, f)) : openRemoveTagModal(f, TagsOf(tags, f)[i])
  \/ ConfirmRemoveTag
  \/ \E c \in Callers : SaveTagsResolved(c)
  \/ \E c \in Callers : SaveTagsRejected(c)
  \/ \E c \in Callers : \E st \in {"ok", "error"} : ResumeAfterSave(c, st)

MutateSpec == Init /\ [][MutateNext]_vars

\* ------------------------------------------------------------- the claims
\* two characters that are the same letter, whatever their case
SameLetter(c, d) ==
  \/ c = d
  \/ {c, d} \in { {"A", "a"}, {"B", "b"}, {"W", "w"} }

\* two strings that are equal when case is ignored
SameText(s, t) ==
  /\ Len(s) = Len(t)
  /\ \A i \in 1..Len(s) : SameLetter(s[i], t[i])

\* q occurs in s when case is ignored
ContainsIgnoringCase(s, q) ==
  \E i \in 0..(Len(s) - Len(q)) : \A k \in 1..Len(q) : SameLetter(s[i + k], q[k])

\* the profile's name or its email (empty when absent) contains the search text
TextHit(p) ==
  \/ ContainsIgnoringCase(p.name, search)
  \/ ContainsIgnoringCase(IF p.hasEmail THEN p.email ELSE <<>>, search)

\* the positions of profiles picked by a predicate on positions, in order,
\* are exactly what seq holds
IsSubsequenceAt(seq, idx) ==
  /\ Len(seq) = Cardinality(idx)
  /\ \A j \in idx : seq[Cardinality({k \in idx : k <= j})] = profiles[j]

\* C1: the selection index is always within 0 .. max(0, len(filteredProfiles)-1)
C1_SelectedInRange ==
  /\ 0 <= selected
  /\ selected <= Max(0, Len(filteredProfiles) - 1)

\* C2: with no filter tag selected, filteredProfiles is the subsequence of
\* profiles, in their order, whose name or email contains the search text when
\* case is ignored; an empty search shows every profile
C2_TextFilter ==
  selectedFilterTags = <<>> =>
    /\ IsSubsequenceAt(filteredProfiles,
                       {j \in 1..Len(profiles) : TextHit(profiles[j])})
    /\ (search = <<>> => filteredProfiles = profiles)

\* C2 witness: a mixed-case search text that keeps one of two loaded profiles
C2_Witness ==
  /\ selectedFilterTags = <<>>
  /\ search = <<"a", "B">>
  /\ Len(profiles) = 2
  /\ filteredProfiles = <<ProfileA>>

\* C3: with filter tags selected, a profile is shown if and only if it passes
\* the text match and carries, for every selected name, a tag whose name equals
\* it when case is ignored
C3_TagFilterIgnoresCase ==
  selectedFilterTags # <<>> =>
    IsSubsequenceAt(filteredProfiles,
      {j \in 1..Len(profiles) :
         /\ TextHit(profiles[j])
         /\ \A i \in 1..Len(selectedFilterTags) :
              \E k \in 1..Len(TagsOf(tags, profiles[j].folder)) :
                SameText(TagsOf(tags, profiles[j].folder)[k].name,
                         selectedFilterTags[i])})

\* a draft name without the spaces before its first and after its last
\* character that is no space
DraftCore(s) ==
  LET solid == {k \in 1..Len(s) : s[k] # " "}
  IN IF solid = {} THEN <<>>
     ELSE SubSeq(s, CHOOSE k \in solid : \A m \in solid : k <= m,
                    CHOOSE k \in solid : \A m \in solid : k >= m)

\* a step that confirms the add-tag flow: the Save Tag button, Enter in the
\* tag-name field, or Enter through handleKey
ConfirmsAdd == addModalOpen /\ (ConfirmAddTag \/ handleKey("Enter"))

\* a step that confirms the remove-tag flow: the Remove button, or Enter
\* through handleKey
ConfirmsRemove ==
  removeModalOpen /\ (ConfirmRemoveTag \/ (~addModalOpen /\ handleKey("Enter")))

\* some tag in the mapping t has exactly this name
SomeTagNamed(t, name) ==
  \E i \in 1..Len(t) : \E k \in 1..Len(t[i].list) : t[i].list[k].name = name

\* C4: confirming the add-tag flow with a draft name that equals, when case and
\* surrounding spaces are ignored, a tag name already on the target folder
\* changes no tag sequence, issues no save_tags call, and closes the modal
C4_DuplicateAddIsNoOp ==
  [][ ( /\ ConfirmsAdd
        /\ DraftCore(newTagName) # <<>>
        /\ \E k \in 1..Len(TagsOf(tags, addModalFolder)) :
             SameText(TagsOf(tags, addModalFolder)[k].name, DraftCore(newTagName)) )
      => ( /\ tags' = tags
           /\ saves' = saves
           /\ savedTags' = savedTags
           /\ ~addModalOpen' ) ]_vars

\* C4 witness: the add-tag modal is closed on folder a with the draft " w "
\* against the stored tag W; the tag is as loaded and no save_tags call was made
C4_Witness ==
  /\ ~addModalOpen
  /\ addModalFolder = "a"
  /\ newTagName = <<" ", "w", " ">>
  /\ newTagColor # PRESET_COLORS[3]
  /\ tags = << Entry("a", <<Tag(<<"W">>, PRESET_COLORS[3])>>) >>
  /\ saves = EmptyBag
  /\ savedTags = <<>>
  /\ focus = "search"

\* C5: when a confirmed removal leaves no tag of the removed name on any
\* profile, the name is no longer selected as a filter; every other selected
\* name stays selected, in the same order
C5_PurgeLastOccurrence ==
  [][ (ConfirmsRemove /\ removeModalTag # <<>> /\ tags' # tags)
      => LET name == removeModalTag[1].name
             Other(x) == x # name
         IN /\ ~SomeTagNamed(tags', name) => ~SeqIncludes(selectedFilterTags', name)
            /\ SelectSeq(selectedFilterTags', Other)
                 = SelectSeq(selectedFilterTags, Other) ]_vars

\* C5 witness: a removal is confirmed and awaits its save, no profile carries
\* the removed name any more, and the filter holds another name but not it
C5_Witness ==
  /\ removeModalOpen
  /\ removeModalTag # <<>>
  /\ BagIn(SaveCall("confirmRemoveTag", "pending"), saves)
  /\ ~SomeTagNamed(tags, removeModalTag[1].name)
  /\ selectedFilterTags # <<>>
  /\ ~SeqIncludes(selectedFilterTags, removeModalTag[1].name)

\* C6: no folder's tag sequence holds two tags whose names are equal when case
\* is ignored
C6_NoDuplicateNames ==
  \A i \in 1..Len(tags) :
    \A k, m \in 1..Len(tags[i].list) :
      k # m => ~SameText(tags[i].list[k].name, tags[i].list[m].name)

\* C7: the add-tag modal and the remove-tag modal are never open together
C7_AtMostOneModal == ~(addModalOpen /\ removeModalOpen)

\* C8 as stated: while a modal is open, a key handled by handleKey changes
\* neither selected nor the launches, and only Enter and Escape change anything
C8_KeysLeaveSelectionAlone ==
  [][ \A k \in Keys :
        (AnyModalOpen /\ handleKey(k))
        => ( /\ selected' = selected
             /\ launches' = launches
             /\ (k \notin {"Enter", "Escape"} => UNCHANGED vars) ) ]_vars

\* C8 as amended: while a modal is open, a key handled by handleKey starts no
\* launch, only Enter and Escape change anything, and selected changes only
\* when Enter confirms the removal of the last tag of its name, to 0
C8_KeysWhileModalOpen ==
  [][ \A k \in Keys :
        (AnyModalOpen /\ handleKey(k))
        => ( /\ launches' = launches
             /\ (k \notin {"Enter", "Escape"} => UNCHANGED vars)
             /\ (selected' # selected
                   => /\ k = "Enter"
                      /\ ~addModalOpen
                      /\ removeModalTag # <<>>
                      /\ ~SomeTagNamed(tags', removeModalTag[1].name)
                      /\ selected' = 0) ) ]_vars

\* C8 witness: the second card is selected, the remove-tag modal is open and
\* Enter has confirmed a removal that awaits its save
C8_Witness ==
  /\ removeModalOpen
  /\ ~addModalOpen
  /\ selected = 1
  /\ BagIn(SaveCall("confirmRemoveTag", "pending"), saves)

\* C9: every step that closes a modal leaves the focus on the search field
C9_ClosingFocusesSearch ==
  [][ ( \/ (addModalOpen /\ ~addModalOpen')
        \/ (removeModalOpen /\ ~removeModalOpen') )
      => focus' = "search" ]_vars

\* C10: when a save_tags call has been rejected, the caller resumes as after a
\* success: tags and selectedFilterTags keep their values and the caller's
\* modal is closed
C10_SaveFailureIsIgnored ==
  [][ \A c \in Callers :
        ResumeAfterSave(c, "error")
        => ( /\ tags' = tags
             /\ selectedFilterTags' = selectedFilterTags
             /\ (c = "confirmAddTag" => ~addModalOpen')
             /\ (c = "confirmRemoveTag" => ~removeModalOpen') ) ]_vars

\* C10 witness: the save_tags call of a confirmed add has been rejected while
\* the store still holds the mapping that call carried
C10_Witness ==
  /\ BagIn(SaveCall("confirmAddTag", "error"), saves)
  /\ tags = savedTags
  /\ tags # <<>>

\* C11: startup ends only with the settling of the get_tags call: a failure
\* of get_profiles does not keep the tags from being loaded
C11_LoadsAreIndependent ==
  [][ (mountPc # "done" /\ mountPc' = "done") => mountPc = "get_tags" ]_vars

\* every entry of every folder's sequence is a structure of a name and a color
AllStructured(t) ==
  \A i \in 1..Len(t) :
    \A k \in 1..Len(t[i].list) : DOMAIN t[i].list[k] = {"name", "color"}

\* t holds the answer r of get_tags folder by folder and entry by entry, a
\* bare string replaced by a tag of that name in the first preset color
NormalizedFrom(r, t) ==
  /\ Len(t) = Len(r)
  /\ \A i \in 1..Len(r) :
       /\ t[i].folder = r[i].folder
       /\ Len(t[i].list) = Len(r[i].list)
       /\ \A k \in 1..Len(r[i].list) :
            t[i].list[k] =
              IF r[i].list[k].isString
              THEN [name |-> r[i].list[k].name, color |-> "#3b82f6"]
              ELSE [name |-> r[i].list[k].name, color |-> r[i].list[k].color]

\* C12: a successful load stores the get_tags answer with every bare string
\* turned into a tag of the first preset color and everything else as it
\* came, and no step ever leaves anything but structures in the store
C12_LegacyTagsNormalized ==
  [][ /\ \A r \in GetTagsResults \cup AddLoads \cup TagLoads :
           GetTagsResolved(r) => NormalizedFrom(r, tags')
      /\ AllStructured(tags') ]_vars

\* C12 witness: the answer with the structured W and the bare string w on
\* folder b has been loaded
C12_Witness ==
  /\ mountPc = "done"
  /\ tags = << [folder |-> "b",
                list |-> << [name |-> <<"W">>, color |-> "#3b82f6"],
                            [name |-> <<"w">>, color |-> "#3b82f6"] >>] >>

\* C13: the global unique tag set holds one entry for every tag name of the
\* store and no two entries whose names are equal when case is ignored
C13_OneEntryPerName ==
  /\ \A i \in 1..Len(FlatTags(tags)) :
       \E k \in 1..Len(allUniqueTags) :
         SameText(allUniqueTags[k].name, FlatTags(tags)[i].name)
  /\ \A k, m \in 1..Len(allUniqueTags) :
       k # m => ~SameText(allUniqueTags[k].name, allUniqueTags[m].name)

\* C14: every entry of the global unique tag set is the first tag of its name
\* in the order of the store, folder by folder and tag by tag
C14_FirstOccurrenceShown ==
  \A k \in 1..Len(allUniqueTags) :
    \E i \in 1..Len(FlatTags(tags)) :
      /\ FlatTags(tags)[i] = allUniqueTags[k]
      /\ \A j \in 1..(i - 1) : FlatTags(tags)[j].name # allUniqueTags[k].name

\* C15: every step that changes the search text or the selected filter tags
\* leaves selected at 0
C15_FilterChangeResetsSelected ==
  [][ (search' # search \/ selectedFilterTags' # selectedFilterTags)
      => selected' = 0 ]_vars

\* C15 witness: with a search text that shows both cards and a filter on w,
\* the removal of the only tag w has been confirmed: the filter is purged and
\* the first card is selected
C15_Witness ==
  /\ search # <<>>
  /\ Len(filteredProfiles) = 2
  /\ removeModalOpen
  /\ removeModalTag = <<Tag(<<"w">>, PRESET_COLORS[1])>>
  /\ BagIn(SaveCall("confirmRemoveTag", "pending"), saves)
  /\ ~SomeTagNamed(tags, <<"w">>)
  /\ selectedFilterTags = <<>>
  /\ selected = 0

\* the value of the other variables that ArrowUp, ArrowDown and a launch
\* leave alone
ListAndModals ==
  << profiles, search, tags, selectedFilterTags, addModalVars, removeModalVars >>

\* C16: with no modal open and n >= 1 cards, ArrowDown moves selected to
\* selected + 1 but not beyond n - 1, ArrowUp to selected - 1 but not below 0,
\* and neither changes the search, the filter, the store or the modals
C16_ArrowsClamp ==
  [][ (~AnyModalOpen /\ Len(filteredProfiles) >= 1)
      => LET n == Len(filteredProfiles)
         IN /\ handleKey("ArrowDown")
                 => /\ selected' = IF selected + 1 <= n - 1 THEN selected + 1
                                    ELSE n - 1
                    /\ UNCHANGED ListAndModals
            /\ handleKey("ArrowUp")
                 => /\ selected' = IF selected - 1 >= 0 THEN selected - 1 ELSE 0
                    /\ UNCHANGED ListAndModals ]_vars

\* C16 witness: the second of two cards is selected, where ArrowDown stays
C16_Witness ==
  /\ ~AnyModalOpen
  /\ Len(filteredProfiles) = 2
  /\ selected = 1
  /\ launches = EmptyBag

\* C17: a confirmation that changes the store closes its modal in the same
\* step, without waiting for the save_tags call
C17_ConfirmClosesAtOnce ==
  [][ /\ (ConfirmsAdd /\ tags' # tags) => ~addModalOpen'
      /\ (ConfirmsRemove /\ tags' # tags) => ~removeModalOpen' ]_vars

\* C18: with no modal open, Enter starts one launch of the folder of
\* filteredProfiles[selected] when there is such a card and none otherwise;
\* a launch, started or settled, leaves the list, the selection and the
\* modals as they are
C18_EnterLaunchesSelected ==
  [][ /\ (~AnyModalOpen /\ handleKey("Enter"))
           => /\ launches' =
                   IF 0 <= selected /\ selected < Len(filteredProfiles)
                   THEN launches (+) SetToBag({filteredProfiles[selected + 1].folder})
                   ELSE launches
              /\ UNCHANGED << ListAndModals, selected >>
      /\ LaunchSettled => UNCHANGED << ListAndModals, selected >> ]_vars

\* C18 witness: the second of two cards is selected and its folder b is
\* being launched
C18_Witness ==
  /\ ~AnyModalOpen
  /\ Len(filteredProfiles) = 2
  /\ selected = 1
  /\ BagIn("b", launches)

\* C19: a confirmation that changes the store adds one pending save_tags call
\* whose payload is the whole store as the step leaves it; an add puts the
\* tag of the draft name without its surrounding spaces and of the draft
\* color at the end of the target folder and changes no other entry
C19_SaveWholeStore ==
  [][ /\ (ConfirmsAdd /\ tags' # tags)
           => /\ saves' = saves (+) SetToBag({SaveCall("confirmAddTag", "pending")})
              /\ savedTags' = tags'
              /\ TagsOf(tags', addModalFolder)
                   = Append(TagsOf(tags, addModalFolder),
                            [name |-> DraftCore(newTagName), color |-> newTagColor])
              /\ \A f \in {"a", "b"} \ {addModalFolder} :
                   TagsOf(tags', f) = TagsOf(tags, f)
      /\ (ConfirmsRemove /\ tags' # tags)
           => /\ saves' = saves (+) SetToBag({SaveCall("confirmRemoveTag", "pending")})
              /\ savedTags' = tags' ]_vars

\* C19 witness: the draft " w " was added to folder a while folder b holds
\* tags, and the pending save_tags call carries both folders
C19_Witness ==
  /\ BagIn(SaveCall("confirmAddTag", "pending"), saves)
  /\ addModalFolder = "a"
  /\ newTagName = <<" ", "w", " ">>
  /\ TagsOf(tags, "a") = <<Tag(<<"w">>, newTagColor)>>
  /\ TagsOf(tags, "b") # <<>>
  /\ savedTags = tags

\* a step that leaves a modal without a confirmed change: Escape, a click on
\* the backdrop, Cancel, or a confirmed add whose draft name holds no
\* character but spaces
ClosesWithoutChange ==
  \/ EscapeInTagInput
  \/ ClickAddBackdrop
  \/ CancelAddTag
  \/ ClickRemoveBackdrop
  \/ CancelRemoveTag
  \/ (AnyModalOpen /\ handleKey("Escape"))
  \/ (ConfirmsAdd /\ DraftCore(newTagName) = <<>>)

\* C20: leaving a modal without a confirmed change leaves the store and the
\* selected filter tags as they are and adds no save_tags call
C20_CloseChangesNothing ==
  [][ ClosesWithoutChange
      => /\ tags' = tags
         /\ selectedFilterTags' = selectedFilterTags
         /\ saves' = saves
         /\ savedTags' = savedTags ]_vars

\* C20 witness: the add-tag modal was left with a draft of one space; the
\* store is as loaded and no save_tags call was ever made
C20_Witness ==
  /\ ~addModalOpen
  /\ addModalFolder = "a"
  /\ newTagName = <<" ">>
  /\ tags = << Entry("b", <<Tag(<<"W">>, PRESET_COLORS[1]), Tag(<<"w">>, PRESET_COLORS[1])>>) >>
  /\ saves = EmptyBag
  /\ savedTags = <<>>

\* C21: a confirmed removal keeps the removed name among the selected filter
\* tags when a tag of that name, compared without regard to case, is left on
\* any profile
C21_PurgeIgnoresCase ==
  [][ (ConfirmsRemove /\ removeModalTag # <<>> /\ tags' # tags)
      => LET name == removeModalTag[1].name
         IN ( /\ SeqIncludes(selectedFilterTags, name)
              /\ \E i \in 1..Len(FlatTags(tags')) :
                   SameText(FlatTags(tags')[i].name, name) )
            => SeqIncludes(selectedFilterTags', name) ]_vars

\* C22: the end of a save_tags call never closes an add-tag modal opened
\* after the confirmation that made the call; in MutateSpec such a modal is
\* one whose draft name is still empty
C22_SettleSparesNewModal ==
  [][ \A st \in {"ok", "error"} :
        (ResumeAfterSave("confirmAddTag", st) /\ addModalOpen /\ newTagName = <<>>)
        => addModalOpen' ]_vars

\* C23: when a confirmed removal takes an active filter tag from the selected
\* card while another profile still carries it, so that the filter is kept,
\* selected is at most max(0, n - 1) for the n cards left
C23_SelectedValidAfterRemoval ==
  [][ ( /\ ConfirmsRemove
        /\ removeModalTag # <<>>
        /\ tags' # tags
        /\ 0 <= selected /\ selected < Len(filteredProfiles)
        /\ filteredProfiles[selected + 1].folder = removeModalFolder
        /\ SeqIncludes(selectedFilterTags, removeModalTag[1].name)
        /\ SomeTagNamed(tags', removeModalTag[1].name) )
      => selected' <= Max(0, Len(FilterProfiles(profiles', search', tags',
                                                selectedFilterTags')) - 1) ]_vars

\* C24: every selected filter name is the name of a tag in the store
C24_NoDanglingFilter ==
  \A i \in 1..Len(selectedFilterTags) : SomeTagNamed(tags, selectedFilterTags[i])

====
